---- MODULE Spec2Model ----
(***************************************************************************)
(* AtomicVector<T> of fblualib/atomicvector/AtomicVector.h: a growable     *)
(* vector of exponentially sized buckets with lock-free append, read and   *)
(* write, a SensitiveSection that defers the release of a replaced value,  *)
(* and the Refcount<int> policy of AtomicVectorTest.cpp; its save and load *)
(* to a file of bytes; its index arithmetic in 32-bit words; and the       *)
(* CrossThreadRegistry of named vectors with the handles that              *)
(* AtomicVector.cpp gives to Lua.                                          *)
(*                                                                         *)
(* Every action is one atomic access of a thread to shared memory (one     *)
(* std::atomic operation, one Refcount operation, one locked section or    *)
(* one file operation) together with the thread-local computation around   *)
(* it.                                                                     *)
(***************************************************************************)
EXTENDS Integers, Sequences, FiniteSets, TLC

\* ---------------------------------------------------------------- bounds
NumThreads == 2      \* threads calling into one vector
MaxVal     == 2      \* elements are the ints 1..MaxVal; 0 is the empty slot
MaxSize    == 2      \* append calls are issued while fewer than this are stored or in flight
MaxHeld    == 1      \* references returned by read and not yet released
m_n        == 2      \* counters of the SensitiveSection
NumNames   == 2      \* names used with create, destroy and get
MaxObjects == 2      \* vectors the registry creates
MaxBucket  == 5      \* the index mapping is computed for every index of the buckets 0..MaxBucket

\* ------------------------------------------------------ program constants
kMaxBuckets == 32
kMagic      == 67639671      \* 0x04081977
kLuaMagic   == 1413567820    \* 0x5441554c, "LUAT"
sizeofInt   == 4
sizeofSizeT == 8
\* The multiplier 2654435761 of getCount is 40503 * 65536 + 31153; the model
\* checker's integers are 32-bit signed, so it is kept in two halves.
KnuthHi     == 40503
KnuthLo     == 31153
Half        == 65536

Threads == 1 .. NumThreads
Values  == 1 .. MaxVal
NullBucket == <<>>
Names   == 1 .. NumNames

VARIABLES
  m_size,      \* std::atomic<BucketIndex> m_size
  m_buckets,   \* std::atomic<Bucket*> m_buckets[kMaxBuckets]; NullBucket or the m_items of the Bucket
  m_counts,    \* SensitiveSection::m_counts
  rc,          \* Refcount<int>::m_counts, indexed by the element
  alive,       \* the vector has been constructed and not yet destroyed
  pc,          \* per thread: the statement it is about to execute
  val,         \* per thread: the val argument (append, write) or local (read)
  slot,        \* per thread: the slot argument (read, write) or insertionPoint (append)
  old,         \* per thread: write's local old
  wi,          \* per thread: the loop variable i of SensitiveSection::wait
  results,     \* per thread: the <<index, value>> of each append that returned, in call order
  held,        \* per element: references returned by read and not yet released by the caller
  pending,     \* history, per writer: the readers that had loaded the value it swapped out and have not yet incremented it
  overwritten, \* history, per writer: another write to its slot took effect after its own swap and before its return
  g_vecTab,    \* CrossThreadRegistry::m_registry: per name the vector it owns, 0 when the name is absent
  live,        \* the vectors that have been created and not yet deleted
  m_mutex,     \* CrossThreadRegistry::m_mutex: the thread that holds it, 0 when free
  handle,      \* per thread: the TorchAtomicVectorIf* in the userdata it got from get, 0 when it has none
  rpc,         \* per thread: the statement of create, destroy, get or of a call through the handle it is about to execute
  rname,       \* per thread: the name argument
  rret,        \* per thread: what its last create, destroy or get returned
  created,     \* history, per name: the create calls that returned true
  erased,      \* history, per name: the destroy calls that returned true
  file,        \* the bytes of the FILE* given to save and load
  fpos,        \* the position of the FILE*
  spc,         \* the statement of save or load its caller is about to execute
  sz,          \* save, load: the local sz
  s_i,         \* save: the loop variable i
  offsets,     \* save: the local offsets
  directory,   \* load: the local directory
  li,          \* load, per worker: the loop variable i of its lambda, 0 before the worker is started
  finalFilePtr,\* load: the local finalFilePtr
  nThreads,    \* load: the local nThreads, sysconf(_SC_NPROCESSORS_ONLN)
  process,     \* "running", or "terminated" once std::terminate was called
  snapshot,    \* history: what the slots below size held when save was called
  loadedBy,    \* history, per worker of load: the indices it has deserialized and handed to write, in order
  insertionPoint, \* append: the local insertionPoint, a 32-bit word << high half, low half >>
  locals,      \* append: what it computes from insertionPoint, NoLocals before it has
  inside       \* history, per writer: the threads that were inside the section when it called wait (called), and those of them that have not left since (still)

\* The registry of named vectors and the handles to them.
regVars == << g_vecTab, live, m_mutex, handle, rpc, rname, rret, created, erased >>

\* The file, and the locals of save and load.
ioVars == << file, fpos, spc, sz, s_i, offsets, directory, li, finalFilePtr, nThreads, process, snapshot >>

\* What the registry, save and load leave alone besides the vector.
\* The index arithmetic of one append.
mapVars == << insertionPoint, locals >>

extra == << inside, loadedBy, mapVars >>

\* What append, read, write and the destructor leave alone.
ext == << regVars, ioVars, extra >>

vars == << m_size, m_buckets, m_counts, rc, alive, pc, val, slot, old, wi,
           results, held, pending, overwritten, ext >>

\* ------------------------------------------------------------ index maps
RECURSIVE findLastSet(_)
findLastSet(v) == IF v = 0 THEN 0 ELSE 1 + findLastSet(v \div 2)

highOrderBit(v) == findLastSet(v)

\* A mapping that takes the high-order bit of index itself.
indexToBucketIndex_NoPlusOne(index) == highOrderBit(index) - 1

\* BucketIndex is uint32_t; every index of the model is far below 2^32 - 1.
indexToBucketIndex(index) == highOrderBit(index + 1) - 1

indexToIntraBucketIndex(index, bucket) ==
  LET bucketStart == 2^bucket - 1
  IN  index - bucketStart

BucketCapacity(b) == 2^b

NewBucket(capac) == [i \in 1 .. capac |-> 0]

\* Bucket::operator[] through indexToBucket: the item of a global index.
Item(index) ==
  m_buckets[indexToBucketIndex(index)][indexToIntraBucketIndex(index, indexToBucketIndex(index)) + 1]

BucketOf(index) == m_buckets[indexToBucketIndex(index)]

\* What a load of the item of `index` can yield.  Dereferencing a null bucket
\* pointer is undefined: any value may come back.
LoadItem(index) ==
  IF BucketOf(index) = NullBucket THEN 0 .. MaxVal ELSE {Item(index)}

StoreItem(index, v) ==
  LET b == indexToBucketIndex(index)
      o == indexToIntraBucketIndex(index, b)
  IN  [m_buckets EXCEPT ![b] = [@ EXCEPT ![o + 1] = v]]

\* The content of slot i, 0 while its bucket is not allocated.
Stored(i) == IF BucketOf(i) = NullBucket THEN 0 ELSE Item(i)

\* ------------------------------------------------------ SensitiveSection
self(t) == t

\* m_counts[(self * 2654435761) % m_n]
getCount(t) ==
  ((self(t) % m_n) * (((KnuthHi % m_n) * (Half % m_n) + KnuthLo) % m_n)) % m_n

\* The counters are uint32_t; a counter below 0 stands for one that wrapped.
enter(t) == [m_counts EXCEPT ![getCount(t)] = @ + 1]

leave(t) == [m_counts EXCEPT ![getCount(t)] = @ - 1]

appearsFree == \A i \in 0 .. m_n - 1 : m_counts[i] = 0

\* ------------------------------------------------------------- Refcount
inc(v) == [rc EXCEPT ![v] = @ + 1]

dec(v) == [rc EXCEPT ![v] = @ - 1]

\* No thread was inside the section, or no wait is in progress.
NoneInside == [called |-> {}, still |-> {}]


\* ------------------------------------------------ 32-bit index arithmetic
\* A 32-bit word is << its high 16 bits, its low 16 bits >>.  A mathematical
\* value up to 2^32 is written the same way, its first component reaching 2^16.
\* The mathematical values 2^n (n <= 32), w - 1 (w > 0) and w + 1.
TwoTo(n) == IF n < 16 THEN << 0, 2^n >> ELSE << 2^(n - 16), 0 >>
Pred(w) == IF w[2] > 0 THEN << w[1], w[2] - 1 >> ELSE << w[1] - 1, Half - 1 >>
Succ(w) == IF w[2] < Half - 1 THEN << w[1], w[2] + 1 >> ELSE << w[1] + 1, 0 >>

\* BucketIndex is uint32_t: index + 1 wraps at 2^32.
PlusOne(w) == IF Succ(w)[1] = Half THEN << 0, 0 >> ELSE Succ(w)

\* a - b in uint32_t, the int operand converted to unsigned.
Minus(a, b) ==
  LET lo == a[2] - b[2]
      hi == a[1] - b[1] - (IF lo < 0 THEN 1 ELSE 0)
  IN  << (hi + Half) % Half, (lo + Half) % Half >>

\* a < b, both taken as unsigned.
Below(a, b) == a[1] < b[1] \/ (a[1] = b[1] /\ a[2] < b[2])

\* folly::findLastSet of a 32-bit word.
highOrderBit32(w) == IF w[1] # 0 THEN 16 + findLastSet(w[1]) ELSE findLastSet(w[2])

\* The bits of INT_MIN and INT_MAX.
IntMin == << 32768, 0 >>
IntMax == << 32767, Half - 1 >>

\* What a signed overflow can leave in an int.
Overflowed == {<< 0, 0 >>, IntMax, << Half - 1, Half - 1 >>}

\* 1 << n, computed in int: the bits that result and whether the result is the
\* mathematical value.  2^31 is not an int (the bits are those of INT_MIN); a
\* shift by 32 or more is undefined: the x86 shift uses the low five bits of
\* the count, a folded constant is 0.
ShiftLeft(n) ==
  IF n <= 30 THEN {[bits |-> TwoTo(n), ok |-> TRUE]}
  ELSE IF n = 31 THEN {[bits |-> IntMin, ok |-> FALSE]}
  ELSE {[bits |-> << 0, 0 >>, ok |-> FALSE], [bits |-> TwoTo(n % 32), ok |-> FALSE]}

\* x - 1, computed in int: INT_MIN - 1 is a signed overflow.
MinusOne(x) ==
  IF x.bits = IntMin THEN {[bits |-> b, ok |-> FALSE] : b \in Overflowed}
  ELSE {[bits |-> Minus(x.bits, << 0, 1 >>), ok |-> x.ok]}

\* append has not computed anything from insertionPoint yet.
NoLocals == [bucket |-> 0 - 1]

\* ----------------------------------------------------------------- Init
InitProgram ==
  /\ m_size = 0
  /\ m_buckets = [b \in 0 .. kMaxBuckets - 1 |-> NullBucket]
  /\ m_counts = [i \in 0 .. m_n - 1 |-> 0]
  /\ rc = [v \in 0 .. MaxVal |-> 0]
  /\ alive = TRUE
  /\ pc = [t \in Threads |-> "idle"]
  /\ val = [t \in Threads |-> 0]
  /\ slot = [t \in Threads |-> 0]
  /\ old = [t \in Threads |-> 0]
  /\ wi = [t \in Threads |-> 0]
  /\ results = [t \in Threads |-> <<>>]
  /\ held = [v \in 0 .. MaxVal |-> 0]
  /\ pending = [t \in Threads |-> {}]
  /\ overwritten = [t \in Threads |-> FALSE]
  /\ g_vecTab = [n \in Names |-> 0]
  /\ live = {}
  /\ m_mutex = 0
  /\ handle = [t \in Threads |-> 0]
  /\ rpc = [t \in Threads |-> "idle"]
  /\ rname = [t \in Threads |-> 0]
  /\ rret = [t \in Threads |-> "none"]
  /\ created = [n \in Names |-> 0]
  /\ erased = [n \in Names |-> 0]
  /\ file = <<>>
  /\ fpos = 0
  /\ spc = "idle"
  /\ sz = 0
  /\ s_i = 0
  /\ offsets = <<>>
  /\ directory = <<>>
  /\ li = [t \in Threads |-> 0]
  /\ finalFilePtr = 0
  /\ nThreads = 0
  /\ process = "running"
  /\ snapshot = <<>>
  /\ inside = [t \in Threads |-> NoneInside]
  /\ loadedBy = [t \in Threads |-> <<>>]

Init ==
  /\ InitProgram
  /\ insertionPoint = << 0, 0 >>
  /\ locals = NoLocals

\* -------------------------------------------------------------- helpers
AppendPcs == {"a_size", "a_bucket", "a_alloc", "a_slot", "a_inc", "a_assert", "a_publish"}
ReadPcs   == {"r_throw", "r_enter", "r_load", "r_inc", "r_leave"}
WritePcs  == {"w_throw", "w_inc", "w_load", "w_cas", "w_wait", "w_dec"}

\* Where a thread is after enter and before leave.
InSection == {"r_load", "r_inc", "r_leave"}

InFlight(pcs) == Cardinality({t \in Threads : pc[t] \in pcs})

RECURSIVE SumUpTo(_, _)
SumUpTo(f, n) == IF n < 0 THEN 0 ELSE f[n] + SumUpTo(f, n - 1)

HeldTotal == SumUpTo(held, MaxVal)

\* A call returns: the frame's locals are gone.
Return(t) ==
  /\ pc' = [pc EXCEPT ![t] = "idle"]
  /\ val' = [val EXCEPT ![t] = 0]
  /\ slot' = [slot EXCEPT ![t] = 0]
  /\ old' = [old EXCEPT ![t] = 0]
  /\ wi' = [wi EXCEPT ![t] = 0]

Goto(t, label) == pc' = [pc EXCEPT ![t] = label]

\* --------------------------------------------------------------- append
\* size_t append(T val) { restart: auto insertionPoint = m_size.load();
AppendCall(t, v) ==
  /\ alive
  /\ pc[t] = "idle"
  /\ m_size + InFlight(AppendPcs) < MaxSize
  /\ val' = [val EXCEPT ![t] = v]
  /\ slot' = [slot EXCEPT ![t] = m_size]
  /\ Goto(t, "a_bucket")
  /\ UNCHANGED << m_size, m_buckets, m_counts, rc, alive, old, wi, results, held, pending, overwritten >>
  /\ UNCHANGED ext

\* goto restart: auto insertionPoint = m_size.load();
AppendLoadSize(t) ==
  /\ pc[t] = "a_size"
  /\ slot' = [slot EXCEPT ![t] = m_size]
  /\ Goto(t, "a_bucket")
  /\ UNCHANGED << m_size, m_buckets, m_counts, rc, alive, val, old, wi, results, held, pending, overwritten >>
  /\ UNCHANGED ext

\* auto buck = bucket.load(); if (!buck) ...
AppendLoadBucket(t) ==
  /\ pc[t] = "a_bucket"
  /\ Goto(t, IF BucketOf(slot[t]) = NullBucket THEN "a_alloc" ELSE "a_slot")
  /\ UNCHANGED << m_size, m_buckets, m_counts, rc, alive, val, slot, old, wi, results, held, pending, overwritten >>
  /\ UNCHANGED ext

\* A bucket installed by a plain store, whatever the pointer holds.
AppendInstallBucket_Store(t) ==
  /\ pc[t] = "a_alloc"
  /\ m_buckets' = [m_buckets EXCEPT ![indexToBucketIndex(slot[t])] =
                     NewBucket(BucketCapacity(indexToBucketIndex(slot[t])))]
  /\ Goto(t, "a_slot")
  /\ UNCHANGED << m_size, m_counts, rc, alive, val, slot, old, wi, results, held, pending, overwritten >>
  /\ UNCHANGED ext

\* buck = new Bucket(sz); if (!bucket.compare_exchange_weak(old, buck)) { delete buck; goto restart; }
\* A weak compare-exchange may fail although the expected value is there.
AppendInstallBucket(t) ==
  /\ pc[t] = "a_alloc"
  /\ \/ /\ BucketOf(slot[t]) = NullBucket
        /\ m_buckets' = [m_buckets EXCEPT ![indexToBucketIndex(slot[t])] =
                           NewBucket(BucketCapacity(indexToBucketIndex(slot[t])))]
        /\ Goto(t, "a_slot")
     \/ /\ Goto(t, "a_size")
        /\ UNCHANGED m_buckets
  /\ UNCHANGED << m_size, m_counts, rc, alive, val, slot, old, wi, results, held, pending, overwritten >>
  /\ UNCHANGED ext

\* A claim of the slot that stores val without comparing the slot with 0.
AppendClaimSlot_Store(t) ==
  /\ pc[t] = "a_slot"
  /\ m_buckets' = StoreItem(slot[t], val[t])
  /\ Goto(t, "a_inc")
  /\ UNCHANGED << m_size, m_counts, rc, alive, val, slot, old, wi, results, held, pending, overwritten >>
  /\ UNCHANGED ext

\* if (!buck->cmpxchg(indexInBucket, 0, val)) goto restart;
AppendClaimSlot(t) ==
  /\ pc[t] = "a_slot"
  /\ \/ /\ Item(slot[t]) = 0
        /\ m_buckets' = StoreItem(slot[t], val[t])
        /\ Goto(t, "a_inc")
     \/ /\ Goto(t, "a_size")
        /\ UNCHANGED m_buckets
  /\ UNCHANGED << m_size, m_counts, rc, alive, val, slot, old, wi, results, held, pending, overwritten >>
  /\ UNCHANGED ext

\* An append that claims its slot and publishes it without incrementing val.
AppendInc_NoInc(t) ==
  /\ pc[t] = "a_inc"
  /\ Goto(t, "a_assert")
  /\ UNCHANGED << m_size, m_buckets, m_counts, rc, alive, val, slot, old, wi, results, held, pending, overwritten >>
  /\ UNCHANGED ext

\* rc.inc(val);
AppendInc(t) ==
  /\ pc[t] = "a_inc"
  /\ rc' = inc(val[t])
  /\ Goto(t, "a_assert")
  /\ UNCHANGED << m_size, m_buckets, m_counts, alive, val, slot, old, wi, results, held, pending, overwritten >>
  /\ UNCHANGED ext

\* assert(m_size.load() == insertionPoint);
AppendAssert(t) ==
  /\ pc[t] = "a_assert"
  /\ Goto(t, IF m_size = slot[t] THEN "a_publish" ELSE "abort")
  /\ UNCHANGED << m_size, m_buckets, m_counts, rc, alive, val, slot, old, wi, results, held, pending, overwritten >>
  /\ UNCHANGED ext

\* An append that returns the size after its increment.
AppendPublish_ReturnsSize(t) ==
  /\ pc[t] = "a_publish"
  /\ m_size' = m_size + 1
  /\ results' = [results EXCEPT ![t] = Append(@, << m_size + 1, val[t] >>)]
  /\ Return(t)
  /\ UNCHANGED << m_buckets, m_counts, rc, alive, held, pending, overwritten >>
  /\ UNCHANGED ext

\* An append that returns without the increment of m_size.
AppendPublish_NoIncrement(t) ==
  /\ pc[t] = "a_publish"
  /\ results' = [results EXCEPT ![t] = Append(@, << slot[t], val[t] >>)]
  /\ Return(t)
  /\ UNCHANGED << m_size, m_buckets, m_counts, rc, alive, held, pending, overwritten >>
  /\ UNCHANGED ext

\* m_size.fetch_add(1); return insertionPoint;
AppendPublish(t) ==
  /\ pc[t] = "a_publish"
  /\ m_size' = m_size + 1
  /\ results' = [results EXCEPT ![t] = Append(@, << slot[t], val[t] >>)]
  /\ Return(t)
  /\ UNCHANGED << m_buckets, m_counts, rc, alive, held, pending, overwritten >>
  /\ UNCHANGED ext

\* ----------------------------------------------------------------- read
\* A bounds check written slot > m_size.
ReadCall_Greater(t, idx) ==
  /\ alive
  /\ pc[t] = "idle"
  /\ HeldTotal + InFlight(ReadPcs) < MaxHeld
  /\ slot' = [slot EXCEPT ![t] = idx]
  /\ Goto(t, IF idx > m_size THEN "r_throw" ELSE "r_enter")
  /\ UNCHANGED << m_size, m_buckets, m_counts, rc, alive, val, old, wi, results, held, pending, overwritten >>
  /\ UNCHANGED ext

\* T read(BucketIndex slot): if (slot >= m_size) throw std::runtime_error("read past end of vector");
ReadCall(t, idx) ==
  /\ alive
  /\ pc[t] = "idle"
  /\ HeldTotal + InFlight(ReadPcs) < MaxHeld
  /\ slot' = [slot EXCEPT ![t] = idx]
  /\ Goto(t, IF idx >= m_size THEN "r_throw" ELSE "r_enter")
  /\ UNCHANGED << m_size, m_buckets, m_counts, rc, alive, val, old, wi, results, held, pending, overwritten >>
  /\ UNCHANGED ext

\* The std::runtime_error of read or write reaches the caller.
Unwind(t) ==
  /\ pc[t] \in {"r_throw", "w_throw"}
  /\ Return(t)
  /\ UNCHANGED << m_size, m_buckets, m_counts, rc, alive, results, held, pending, overwritten >>
  /\ UNCHANGED ext

\* detail::SensitiveSectionGuard ssg(&m_sensitiveSection);
ReadEnter(t) ==
  /\ pc[t] = "r_enter"
  /\ m_counts' = enter(t)
  /\ Goto(t, "r_load")
  /\ UNCHANGED << m_size, m_buckets, rc, alive, val, slot, old, wi, results, held, pending, overwritten >>
  /\ inside' = [w \in Threads |->
                 IF pc[w] = "w_wait" /\ wi[w] = 0
                   THEN [called |-> inside[w].called \cup {t}, still |-> inside[w].still \cup {t}]
                   ELSE inside[w]]
  /\ UNCHANGED << regVars, ioVars, loadedBy, mapVars >>

\* A load that takes the first item of the first bucket, whatever the index.
ReadLoad_FirstBucket(t) ==
  /\ pc[t] = "r_load"
  /\ val' = [val EXCEPT ![t] = m_buckets[0][1]]
  /\ Goto(t, "r_inc")
  /\ UNCHANGED << m_size, m_buckets, m_counts, rc, alive, slot, old, wi, results, held, pending, overwritten >>
  /\ UNCHANGED ext

\* auto val = (*bucket.load())[bidx];
ReadLoad(t) ==
  /\ pc[t] = "r_load"
  /\ \E v \in LoadItem(slot[t]) : val' = [val EXCEPT ![t] = v]
  /\ Goto(t, "r_inc")
  /\ UNCHANGED << m_size, m_buckets, m_counts, rc, alive, slot, old, wi, results, held, pending, overwritten >>
  /\ UNCHANGED ext

\* rc.inc(val);
ReadInc(t) ==
  /\ pc[t] = "r_inc"
  /\ rc' = inc(val[t])
  /\ pending' = [w \in Threads |-> pending[w] \ {t}]
  /\ Goto(t, "r_leave")
  /\ UNCHANGED << m_size, m_buckets, m_counts, alive, val, slot, old, wi, results, held, overwritten >>
  /\ UNCHANGED ext

\* return val;  ~SensitiveSectionGuard leaves the section; the caller now holds val.
ReadLeave(t) ==
  /\ pc[t] = "r_leave"
  /\ m_counts' = leave(t)
  /\ held' = [held EXCEPT ![val[t]] = @ + 1]
  /\ Return(t)
  /\ UNCHANGED << m_size, m_buckets, rc, alive, results, pending, overwritten >>
  /\ inside' = [w \in Threads |-> [inside[w] EXCEPT !.still = @ \ {t}]]
  /\ UNCHANGED << regVars, ioVars, loadedBy, mapVars >>

\* The caller drops a reference it got from read: rc.dec(val).
Release(v) ==
  /\ held[v] > 0
  /\ held' = [held EXCEPT ![v] = @ - 1]
  /\ rc' = dec(v)
  /\ UNCHANGED << m_size, m_buckets, m_counts, alive, pc, val, slot, old, wi, results, pending, overwritten >>
  /\ UNCHANGED ext

\* ---------------------------------------------------------------- write
\* A write that increments val before the bounds check.
WriteCall_IncFirst(t, idx, v) ==
  /\ alive
  /\ pc[t] = "idle"
  /\ slot' = [slot EXCEPT ![t] = idx]
  /\ val' = [val EXCEPT ![t] = v]
  /\ rc' = inc(v)
  /\ Goto(t, IF idx >= m_size THEN "w_throw" ELSE "w_load")
  /\ UNCHANGED << m_size, m_buckets, m_counts, alive, old, wi, results, held, pending, overwritten >>
  /\ UNCHANGED ext

\* void write(BucketIndex slot, T val): assert(val);
\* if (slot >= m_size) throw std::runtime_error("write past end of vector; use vec:append()?");
WriteCall(t, idx, v) ==
  /\ alive
  /\ pc[t] = "idle"
  /\ slot' = [slot EXCEPT ![t] = idx]
  /\ val' = [val EXCEPT ![t] = v]
  /\ Goto(t, IF idx >= m_size THEN "w_throw" ELSE "w_inc")
  /\ UNCHANGED << m_size, m_buckets, m_counts, rc, alive, old, wi, results, held, pending, overwritten >>
  /\ UNCHANGED ext

\* rc.inc(val);
WriteInc(t) ==
  /\ pc[t] = "w_inc"
  /\ rc' = inc(val[t])
  /\ Goto(t, "w_load")
  /\ UNCHANGED << m_size, m_buckets, m_counts, alive, val, slot, old, wi, results, held, pending, overwritten >>
  /\ UNCHANGED ext

\* restart: auto old = home.load();
WriteLoad(t) ==
  /\ pc[t] = "w_load"
  /\ \E v \in LoadItem(slot[t]) : old' = [old EXCEPT ![t] = v]
  /\ Goto(t, "w_cas")
  /\ UNCHANGED << m_size, m_buckets, m_counts, rc, alive, val, slot, wi, results, held, pending, overwritten >>
  /\ UNCHANGED ext

\* A swap that takes a failed compare-exchange for a success.
WriteSwap_NoRetry(t) ==
  /\ pc[t] = "w_cas"
  /\ BucketOf(slot[t]) # NullBucket
  /\ m_buckets' = IF Item(slot[t]) = old[t] THEN StoreItem(slot[t], val[t]) ELSE m_buckets
  /\ Goto(t, "w_wait")
  /\ UNCHANGED << m_size, m_counts, rc, alive, val, slot, old, wi, results, held, pending, overwritten >>
  /\ inside' = [inside EXCEPT ![t] = [called |-> {r \in Threads : pc[r] \in InSection},
                                                     still |-> {r \in Threads : pc[r] \in InSection}]]
  /\ UNCHANGED << regVars, ioVars, loadedBy, mapVars >>

\* The readers that loaded the value in `idx` and have not yet incremented it.
ReadersHolding(idx, v) ==
  {r \in Threads : pc[r] = "r_inc" /\ slot[r] = idx /\ val[r] = v}

\* if (!home.compare_exchange_weak(old, val)) goto restart;  if (old) { wait(); dec(old); }
WriteSwap(t) ==
  /\ pc[t] = "w_cas"
  /\ \/ /\ BucketOf(slot[t]) # NullBucket
        /\ Item(slot[t]) = old[t]
        /\ m_buckets' = StoreItem(slot[t], val[t])
        /\ overwritten' = [w \in Threads |->
                             w # t /\ (overwritten[w] \/ (pc[w] \in {"w_wait", "w_dec"} /\ slot[w] = slot[t]))]
        /\ IF old[t] # 0
             THEN /\ Goto(t, "w_wait")
                  /\ pending' = [pending EXCEPT ![t] = ReadersHolding(slot[t], old[t])]
                  /\ inside' = [inside EXCEPT ![t] = [called |-> {r \in Threads : pc[r] \in InSection},
                                                     still |-> {r \in Threads : pc[r] \in InSection}]]
                  /\ UNCHANGED << val, slot, old, wi >>
             ELSE /\ Return(t)
                  /\ UNCHANGED << pending, inside >>
     \/ /\ Goto(t, "w_load")
        /\ UNCHANGED << m_buckets, val, slot, old, wi, pending, overwritten, inside >>
  /\ UNCHANGED << m_size, m_counts, rc, alive, results, held >>
  /\ UNCHANGED << regVars, ioVars, loadedBy, mapVars >>

\* A wait that moves on without looking at the counter.
wait_NoLoad(t) ==
  /\ pc[t] = "w_wait"
  /\ wi' = [wi EXCEPT ![t] = @ + 1]
  /\ Goto(t, IF wi[t] + 1 < m_n THEN "w_wait" ELSE "w_dec")
  /\ UNCHANGED << m_size, m_buckets, m_counts, rc, alive, val, slot, old, results, held, pending, overwritten >>
  /\ UNCHANGED ext

\* A wait that spins while the counter is zero instead of non-zero.
wait_WhileZero(t) ==
  /\ pc[t] = "w_wait"
  /\ m_counts[wi[t]] # 0
  /\ wi' = [wi EXCEPT ![t] = @ + 1]
  /\ Goto(t, IF wi[t] + 1 < m_n THEN "w_wait" ELSE "w_dec")
  /\ UNCHANGED << m_size, m_buckets, m_counts, rc, alive, val, slot, old, results, held, pending, overwritten >>
  /\ UNCHANGED ext

\* SensitiveSection::wait: for (i = 0; i < m_n; i++) while (m_counts[i].load()) pause;
\* One load that finds counter i at zero moves on to counter i + 1.
wait(t) ==
  /\ pc[t] = "w_wait"
  /\ m_counts[wi[t]] = 0
  /\ wi' = [wi EXCEPT ![t] = @ + 1]
  /\ Goto(t, IF wi[t] + 1 < m_n THEN "w_wait" ELSE "w_dec")
  /\ UNCHANGED << m_size, m_buckets, m_counts, rc, alive, val, slot, old, results, held, pending, overwritten >>
  /\ UNCHANGED ext

\* A write that does not decrement the value it replaced.
WriteDec_Leak(t) ==
  /\ pc[t] = "w_dec"
  /\ pending' = [pending EXCEPT ![t] = {}]
  /\ overwritten' = [overwritten EXCEPT ![t] = FALSE]
  /\ Return(t)
  /\ UNCHANGED << m_size, m_buckets, m_counts, rc, alive, results, held >>
  /\ inside' = [inside EXCEPT ![t] = NoneInside]
  /\ UNCHANGED << regVars, ioVars, loadedBy, mapVars >>

\* rc.dec(old);
WriteDec(t) ==
  /\ pc[t] = "w_dec"
  /\ rc' = dec(old[t])
  /\ pending' = [pending EXCEPT ![t] = {}]
  /\ overwritten' = [overwritten EXCEPT ![t] = FALSE]
  /\ Return(t)
  /\ UNCHANGED << m_size, m_buckets, m_counts, alive, results, held >>
  /\ inside' = [inside EXCEPT ![t] = NoneInside]
  /\ UNCHANGED << regVars, ioVars, loadedBy, mapVars >>

\* ----------------------------------------------------------- destructor
\* A destructor that releases only the reference of its own read.
RECURSIVE DestroyCounts_Once(_, _)
DestroyCounts_Once(counts, n) ==
  IF n = 0 THEN counts
  ELSE LET v == Item(n - 1)
       IN  DestroyCounts_Once([counts EXCEPT ![v] = @ + 1 - 1], n - 1)

\* The refcounts after: for (i = 0; i < m_size; i++) { auto val = read(i); rc.dec(val); rc.dec(val); }
RECURSIVE DestroyCounts(_, _)
DestroyCounts(counts, n) ==
  IF n = 0 THEN counts
  ELSE LET v == Item(n - 1)
       IN  DestroyCounts([counts EXCEPT ![v] = @ + 1 - 1 - 1], n - 1)

\* ~AtomicVector, run by the owner once the vector is no longer reachable: no call
\* is in flight.  Every slot below m_size is released, then every bucket is deleted.
Destroy ==
  /\ alive
  /\ \A t \in Threads : pc[t] = "idle"
  /\ appearsFree      \* assert(m_sensitiveSection.appearsFree());
  /\ rc' = DestroyCounts(rc, m_size)
  /\ m_buckets' = [b \in 0 .. kMaxBuckets - 1 |-> NullBucket]
  /\ alive' = FALSE
  /\ UNCHANGED << m_size, m_counts, pc, val, slot, old, wi, results, held, pending, overwritten >>
  /\ UNCHANGED ext

\* ------------------------------------------------------------- registry
\* CrossThreadRegistry<string, TorchAtomicVectorIf> g_vecTab and the Lua
\* functions create, destroy and get of AtomicVector.cpp.
vecVars == << m_size, m_buckets, m_counts, rc, alive, pc, val, slot, old, wi,
              results, held, pending, overwritten >>

RECURSIVE SumOver(_, _)
SumOver(f, n) == IF n = 0 THEN 0 ELSE f[n] + SumOver(f, n - 1)

\* What folly::make_unique<TorchAtomicVector<Real>>() returns: an object that
\* did not exist before.
factory == 1 + SumOver(created, NumNames)

\* create(L), destroy(L) or get(L) is called with a name and reaches the
\* std::lock_guard of the registry method.
RegCall(t, op, n) ==
  /\ rpc[t] = "idle"
  /\ op = "create" =>
       SumOver(created, NumNames)
         + Cardinality({u \in Threads : rpc[u] \in {"create_lock", "create", "c_insert"}}) < MaxObjects
  /\ rpc' = [rpc EXCEPT ![t] = IF op = "create" THEN "create_lock"
                               ELSE IF op = "erase" THEN "erase_lock" ELSE "get_lock"]
  /\ rname' = [rname EXCEPT ![t] = n]
  /\ UNCHANGED << g_vecTab, live, m_mutex, handle, rret, created, erased >>
  /\ UNCHANGED << vecVars, ioVars, extra >>

\* A registry method entered without taking the mutex.
RegLock_NoMutex(t) ==
  /\ rpc[t] \in {"create_lock", "erase_lock", "get_lock"}
  /\ rpc' = [rpc EXCEPT ![t] = IF rpc[t] = "create_lock" THEN "create"
                               ELSE IF rpc[t] = "erase_lock" THEN "erase" ELSE "get"]
  /\ UNCHANGED << g_vecTab, live, m_mutex, handle, rname, rret, created, erased >>
  /\ UNCHANGED << vecVars, ioVars, extra >>

\* std::lock_guard<std::mutex> l(m_mutex);
RegLock(t) ==
  /\ rpc[t] \in {"create_lock", "erase_lock", "get_lock"}
  /\ m_mutex = 0
  /\ m_mutex' = t
  /\ rpc' = [rpc EXCEPT ![t] = IF rpc[t] = "create_lock" THEN "create"
                               ELSE IF rpc[t] = "erase_lock" THEN "erase" ELSE "get"]
  /\ UNCHANGED << g_vecTab, live, handle, rname, rret, created, erased >>
  /\ UNCHANGED << vecVars, ioVars, extra >>

\* ~lock_guard: the mutex is released by the thread that holds it.
Unlock(t) == IF m_mutex = t THEN 0 ELSE m_mutex

\* bool create: if (folly::get_ptr(m_registry, key)) return false;
RegCreateFind(t) ==
  /\ rpc[t] = "create"
  /\ IF g_vecTab[rname[t]] # 0
       THEN /\ rpc' = [rpc EXCEPT ![t] = "idle"]
            /\ rret' = [rret EXCEPT ![t] = "false"]
            /\ m_mutex' = Unlock(t)
       ELSE /\ rpc' = [rpc EXCEPT ![t] = "c_insert"]
            /\ UNCHANGED << rret, m_mutex >>
  /\ UNCHANGED << g_vecTab, live, handle, rname, created, erased >>
  /\ UNCHANGED << vecVars, ioVars, extra >>

\* m_registry[key] = factory(); return true;  The assignment to the unique_ptr
\* deletes what it owned.
RegCreateInsert(t) ==
  /\ rpc[t] = "c_insert"
  /\ g_vecTab' = [g_vecTab EXCEPT ![rname[t]] = factory]
  /\ live' = (live \ {g_vecTab[rname[t]]}) \cup {factory}
  /\ created' = [created EXCEPT ![rname[t]] = @ + 1]
  /\ rret' = [rret EXCEPT ![t] = "true"]
  /\ rpc' = [rpc EXCEPT ![t] = "idle"]
  /\ m_mutex' = Unlock(t)
  /\ UNCHANGED << handle, rname, erased >>
  /\ UNCHANGED << vecVars, ioVars, extra >>

\* bool erase: return m_registry.erase(key);  The unique_ptr of the erased
\* entry deletes the vector.
RegErase(t) ==
  /\ rpc[t] = "erase"
  /\ g_vecTab' = [g_vecTab EXCEPT ![rname[t]] = 0]
  /\ live' = live \ {g_vecTab[rname[t]]}
  /\ erased' = [erased EXCEPT ![rname[t]] = IF g_vecTab[rname[t]] # 0 THEN @ + 1 ELSE @]
  /\ rret' = [rret EXCEPT ![t] = IF g_vecTab[rname[t]] # 0 THEN "true" ELSE "false"]
  /\ rpc' = [rpc EXCEPT ![t] = "idle"]
  /\ m_mutex' = Unlock(t)
  /\ UNCHANGED << handle, rname, created >>
  /\ UNCHANGED << vecVars, ioVars, extra >>

\* Val* get: return valp->get(), or nullptr;  int get(L): luaL_error on nullptr,
\* otherwise *luaPtr = ptr in a new userdata.
RegGet(t) ==
  /\ rpc[t] = "get"
  /\ IF g_vecTab[rname[t]] # 0
       THEN /\ handle' = [handle EXCEPT ![t] = g_vecTab[rname[t]]]
            /\ rret' = [rret EXCEPT ![t] = "handle"]
       ELSE /\ rret' = [rret EXCEPT ![t] = "error"]
            /\ UNCHANGED handle
  /\ rpc' = [rpc EXCEPT ![t] = "idle"]
  /\ m_mutex' = Unlock(t)
  /\ UNCHANGED << g_vecTab, live, rname, created, erased >>
  /\ UNCHANGED << vecVars, ioVars, extra >>

\* append, read, write or size through a handle: checkAtomicVec(L, 1)->luaAppend(L).
HandleCall(t) ==
  /\ rpc[t] = "idle"
  /\ handle[t] # 0
  /\ rpc' = [rpc EXCEPT ![t] = "use"]
  /\ UNCHANGED << g_vecTab, live, m_mutex, handle, rname, rret, created, erased >>
  /\ UNCHANGED << vecVars, ioVars, extra >>

\* The call through the handle returns.
HandleReturn(t) ==
  /\ rpc[t] = "use"
  /\ rpc' = [rpc EXCEPT ![t] = "idle"]
  /\ UNCHANGED << g_vecTab, live, m_mutex, handle, rname, rret, created, erased >>
  /\ UNCHANGED << vecVars, ioVars, extra >>

\* Lua collects the userdata of a handle; its metatable has no __gc.
HandleCollect(t) ==
  /\ rpc[t] = "idle"
  /\ handle[t] # 0
  /\ handle' = [handle EXCEPT ![t] = 0]
  /\ UNCHANGED << g_vecTab, live, m_mutex, rpc, rname, rret, created, erased >>
  /\ UNCHANGED << vecVars, ioVars, extra >>

NextRegistry ==
  \/ \E t \in Threads, op \in {"create", "erase", "get"}, n \in Names : RegCall(t, op, n)
  \/ \E t \in Threads : RegLock(t)
  \/ \E t \in Threads : RegCreateFind(t)
  \/ \E t \in Threads : RegCreateInsert(t)
  \/ \E t \in Threads : RegErase(t)
  \/ \E t \in Threads : RegGet(t)
  \/ \E t \in Threads : HandleCall(t)
  \/ \E t \in Threads : HandleReturn(t)
  \/ \E t \in Threads : HandleCollect(t)

SpecRegistry == Init /\ [][NextRegistry]_vars

\* ------------------------------------------------------------ the file
\* The n bytes of an unsigned integer, little-endian.
RECURSIVE LE(_, _)
LE(x, n) == IF n = 0 THEN <<>> ELSE << x % 256 >> \o LE(x \div 256, n - 1)

\* The integers of the model checker end at 2^31 - 1; Huge stands for every
\* value above that.
Huge == 2147483647

RECURSIVE FromLE(_)
FromLE(b) ==
  IF b = <<>> THEN 0
  ELSE LET rest == FromLE(Tail(b))
       IN  IF rest = Huge \/ rest >= 8388608 THEN Huge ELSE b[1] + 256 * rest

Zeros(n) == [k \in 1 .. n |-> 0]

\* The file after the bytes b are written at position pos; a position past the
\* end leaves a hole of zeros.
WriteAt(f, pos, b) ==
  LET g == IF pos > Len(f) THEN f \o Zeros(pos - Len(f)) ELSE f
  IN  [k \in 1 .. (IF pos + Len(b) > Len(g) THEN pos + Len(b) ELSE Len(g)) |->
         IF k > pos /\ k <= pos + Len(b) THEN b[k - pos] ELSE g[k]]

RECURSIVE Concat(_)
Concat(ss) == IF ss = <<>> THEN <<>> ELSE Head(ss) \o Concat(Tail(ss))

\* Serde<T*>::save: the Header of encode (magic, length) and the data; an
\* element v stands for a tensor of v bytes.
SerdeSave(v) == LE(kLuaMagic, sizeofInt) \o << v >> \o [k \in 1 .. v |-> v]

\* Serde<T*>::load: the element of a well-formed encoding, 0 when decode throws.
SerdeLoad(b) ==
  IF /\ Len(b) > sizeofInt
     /\ FromLE(SubSeq(b, 1, sizeofInt)) = kLuaMagic
     /\ b[sizeofInt + 1] \in Values
     /\ Len(b) = sizeofInt + 1 + b[sizeofInt + 1]
     /\ \A k \in sizeofInt + 2 .. Len(b) : b[k] = b[sizeofInt + 1]
    THEN b[sizeofInt + 1]
    ELSE 0

\* ----------------------------------------------------------------- save
\* The thread that calls save and load.
Saver == NumThreads
Mutators == Threads \ {Saver}

\* size_t directoryOff = ftell(file); ... size_t dataStart = ftell(file);
directoryOff == sizeofInt + sizeofSizeT
dataStart(n) == directoryOff + n * sizeofSizeT

\* void save(FILE* file): fileOp(fwrite, &kMagic, file); size_t sz = size();
\* fileOp(fwrite, &sz, file); std::vector<size_t> offsets(sz); fseek past the
\* directory.  A fileOp whose fwrite comes back short throws.
SaveBegin ==
  /\ alive
  /\ process = "running"
  /\ spc = "idle"
  /\ pc[Saver] = "idle"
  /\ HeldTotal = 0
  /\ \E k \in 0 .. 2 :
       LET fields == << LE(kMagic, sizeofInt), LE(m_size, sizeofSizeT) >>
           done == Concat(SubSeq(fields, 1, k))
       IN  /\ file' = WriteAt(file, fpos, done)
           /\ IF k = 2
                THEN /\ fpos' = fpos + Len(done) + m_size * sizeofSizeT
                     /\ spc' = "s_loop"
                ELSE /\ fpos' = fpos + Len(done)
                     /\ spc' = "s_throw"
           /\ sz' = IF k >= 1 THEN m_size ELSE sz
           /\ offsets' = IF k = 2 THEN Zeros(m_size) ELSE offsets
  /\ s_i' = 0
  /\ snapshot' = [j \in 1 .. m_size |-> Stored(j - 1)]
  /\ UNCHANGED << directory, li, finalFilePtr, nThreads, process >>
  /\ UNCHANGED << vecVars, regVars, extra >>

\* A loop that compares i with the current size instead of sz.
SaveRead_LiveSize ==
  /\ spc = "s_loop"
  /\ s_i < m_size
  /\ HeldTotal = 0
  /\ ReadCall(Saver, s_i)

\* for (i = 0; i < sz; i++) { auto val = read(i);
SaveRead ==
  /\ spc = "s_loop"
  /\ s_i < sz
  /\ HeldTotal = 0
  /\ ReadCall(Saver, s_i)

\* A save that decrements val at the end of the loop body, without SCOPE_EXIT.
SaveElement_NoScopeExit ==
  /\ spc = "s_loop"
  /\ pc[Saver] = "idle"
  /\ \E v \in Values, k \in 0 .. 2 :
       LET str == SerdeSave(v)
           fields == << LE(Len(str), sizeofSizeT), str >>
           done == Concat(SubSeq(fields, 1, k))
       IN  /\ held[v] > 0
           /\ offsets' = [offsets EXCEPT ![s_i + 1] = fpos]
           /\ file' = WriteAt(file, fpos, done)
           /\ fpos' = fpos + Len(done)
           /\ IF k = 2
                THEN /\ s_i' = s_i + 1 /\ spc' = spc
                     /\ rc' = dec(v)
                     /\ held' = [held EXCEPT ![v] = @ - 1]
                ELSE /\ s_i' = s_i /\ spc' = "s_throw"
                     /\ UNCHANGED << rc, held >>
  /\ UNCHANGED << sz, directory, li, finalFilePtr, nThreads, process, snapshot >>
  /\ UNCHANGED << m_size, m_buckets, m_counts, alive, pc, val, slot, old, wi, results, pending, overwritten >>
  /\ UNCHANGED << regVars, extra >>

\* SCOPE_EXIT { Refcount<T>().dec(val); }; offsets[i] = ftell(file);
\* auto str = Serde<T>::save(val, sw); fileOp(fwrite, &strsz, file);
\* fileOp(fwrite, str.data(), strsz, file); }
SaveElement ==
  /\ spc = "s_loop"
  /\ pc[Saver] = "idle"
  /\ \E v \in Values, k \in 0 .. 2 :
       LET str == SerdeSave(v)
           fields == << LE(Len(str), sizeofSizeT), str >>
           done == Concat(SubSeq(fields, 1, k))
       IN  /\ held[v] > 0
           /\ offsets' = [offsets EXCEPT ![s_i + 1] = fpos]
           /\ file' = WriteAt(file, fpos, done)
           /\ fpos' = fpos + Len(done)
           /\ rc' = dec(v)
           /\ held' = [held EXCEPT ![v] = @ - 1]
           /\ IF k = 2
                THEN s_i' = s_i + 1 /\ spc' = spc
                ELSE s_i' = s_i /\ spc' = "s_throw"
  /\ UNCHANGED << sz, directory, li, finalFilePtr, nThreads, process, snapshot >>
  /\ UNCHANGED << m_size, m_buckets, m_counts, alive, pc, val, slot, old, wi, results, pending, overwritten >>
  /\ UNCHANGED << regVars, extra >>

\* The bytes of the first k entries of the directory.
RECURSIVE DirectoryBytes(_, _)
DirectoryBytes(offs, k) ==
  IF k = 0 THEN <<>> ELSE DirectoryBytes(offs, k - 1) \o LE(offs[k], sizeofSizeT)

\* A save that leaves the file position after the directory it has rewritten.
SaveEnd_NoSeekBack ==
  /\ spc = "s_loop"
  /\ s_i = sz
  /\ pc[Saver] = "idle"
  /\ HeldTotal = 0
  /\ \E k \in 0 .. sz :
       /\ file' = WriteAt(file, directoryOff, DirectoryBytes(offsets, k))
       /\ fpos' = directoryOff + k * sizeofSizeT
       /\ spc' = IF k = sz THEN "s_done" ELSE "s_throw"
  /\ UNCHANGED << sz, s_i, offsets, directory, li, finalFilePtr, nThreads, process, snapshot >>
  /\ UNCHANGED << vecVars, regVars, extra >>

\* CHECK(i == sz); size_t end = ftell(file); fseek(file, directoryOff, SEEK_SET);
\* fileOp(fwrite, &offsets[0], offsets.size(), file); fseek(file, end, SEEK_SET);
SaveEnd ==
  /\ spc = "s_loop"
  /\ s_i = sz
  /\ pc[Saver] = "idle"
  /\ HeldTotal = 0
  /\ \E k \in 0 .. sz :
       /\ file' = WriteAt(file, directoryOff, DirectoryBytes(offsets, k))
       /\ IF k = sz
            THEN fpos' = fpos /\ spc' = "s_done"
            ELSE fpos' = directoryOff + k * sizeofSizeT /\ spc' = "s_throw"
  /\ UNCHANGED << sz, s_i, offsets, directory, li, finalFilePtr, nThreads, process, snapshot >>
  /\ UNCHANGED << vecVars, regVars, extra >>

\* A save by one thread while the other threads append and write.
NextSave ==
  \/ \E t \in Mutators, v \in Values : AppendCall(t, v)
  \/ \E t \in Mutators : AppendLoadSize(t)
  \/ \E t \in Mutators : AppendLoadBucket(t)
  \/ \E t \in Mutators : AppendInstallBucket(t)
  \/ \E t \in Mutators : AppendClaimSlot(t)
  \/ \E t \in Mutators : AppendInc(t)
  \/ \E t \in Mutators : AppendAssert(t)
  \/ \E t \in Mutators : AppendPublish(t)
  \/ \E t \in Mutators, idx \in 0 .. MaxSize, v \in Values : WriteCall(t, idx, v)
  \/ \E t \in Mutators : Unwind(t)
  \/ \E t \in Mutators : WriteInc(t)
  \/ \E t \in Mutators : WriteLoad(t)
  \/ \E t \in Mutators : WriteSwap(t)
  \/ \E t \in Mutators : wait(t)
  \/ \E t \in Mutators : WriteDec(t)
  \/ SaveBegin
  \/ SaveRead
  \/ ReadEnter(Saver)
  \/ ReadLoad(Saver)
  \/ ReadInc(Saver)
  \/ ReadLeave(Saver)
  \/ SaveElement
  \/ SaveEnd

SpecSave == Init /\ [][NextSave]_vars

\* ------------------------------------------------------ the file format
\* In the bytes f: the count field, the directory entry of element i, and the
\* length field, the payload and the end of the entry at offset off.
FileCount(f) == FromLE(SubSeq(f, sizeofInt + 1, directoryOff))
FileOffset(f, i) ==
  FromLE(SubSeq(f, directoryOff + i * sizeofSizeT + 1, directoryOff + (i + 1) * sizeofSizeT))
EntryLength(f, off) == FromLE(SubSeq(f, off + 1, off + sizeofSizeT))
EntryPayload(f, off) == SubSeq(f, off + sizeofSizeT + 1, off + sizeofSizeT + EntryLength(f, off))
EntryEnd(f, off) == off + sizeofSizeT + EntryLength(f, off)

\* Where entry i begins when the entries follow the directory back to back.
RECURSIVE EntryStart(_, _, _)
EntryStart(f, n, i) ==
  IF i = 0 THEN dataStart(n) ELSE EntryEnd(f, EntryStart(f, n, i - 1))

\* ----------------------------------------------------------------- load
\* No call is in progress on the vector.
Quiescent == \A t \in Threads : pc[t] = "idle"

\* AtomicVector(): m_size(0), m_sensitiveSection(128), every bucket pointer null.
\* A fresh vector takes the place of one that was destroyed.
Construct ==
  /\ ~alive
  /\ process = "running"
  /\ \A t \in Threads : pc[t] = "idle"
  /\ m_size' = 0
  /\ m_buckets' = [b \in 0 .. kMaxBuckets - 1 |-> NullBucket]
  /\ m_counts' = [i \in 0 .. m_n - 1 |-> 0]
  /\ alive' = TRUE
  /\ results' = [t \in Threads |-> <<>>]
  /\ UNCHANGED << rc, pc, val, slot, old, wi, held, pending, overwritten >>
  /\ UNCHANGED ext

\* The file handed to load is not what save wrote: it was cut short, or one of
\* its bytes was cleared.
Damage ==
  /\ spc = "s_done"
  /\ \/ \E k \in 0 .. Len(file) - 1 : file' = SubSeq(file, 1, k)
     \/ \E k \in 1 .. Len(file) : file[k] # 0 /\ file' = [file EXCEPT ![k] = 0]
  /\ spc' = "damaged"
  /\ UNCHANGED << fpos, sz, s_i, offsets, directory, li, finalFilePtr, nThreads, process, snapshot >>
  /\ UNCHANGED << vecVars, regVars, extra >>

\* void growUnsafe(size_t size): m_size.store(size); every bucket up to the one
\* of index size is allocated.
growUnsafe(size) ==
  [b \in 0 .. kMaxBuckets - 1 |->
     IF b <= indexToBucketIndex(size) THEN NewBucket(BucketCapacity(b)) ELSE NullBucket]

\* fread or pread of n bytes at position off gets them all.
CanRead(off, n) == off <= Len(file) /\ n <= Len(file) - off

Fresh == m_size = 0 /\ \A b \in 0 .. kMaxBuckets - 1 : m_buckets[b] = NullBucket

\* A directory whose every entry is the offset of the first element.
ReadDirectory_FirstEntry(n) == [j \in 1 .. n |-> FileOffset(file, 0)]

\* The directory of n entries read from the file.
ReadDirectory(n) == [j \in 1 .. n |-> FileOffset(file, j - 1)]

\* finalFilePtr before any worker has assigned it.
Uninitialized == 0 - 1

\* void load(FILE* file), called on a fresh vector with the file at the position
\* where save began: fread of magic, sz and directory, each throwing when it
\* comes back short; the magic check; growUnsafe(sz); the workers are started.
LoadBegin ==
  /\ alive
  /\ process = "running"
  /\ spc \in {"s_done", "damaged"}
  /\ \A t \in Threads : pc[t] = "idle"
  /\ Fresh
  /\ \E n \in 1 .. NumThreads :
     IF /\ CanRead(0, directoryOff)
        /\ FromLE(SubSeq(file, 1, sizeofInt)) = kMagic
        /\ FileCount(file) # Huge
        /\ CanRead(directoryOff, FileCount(file) * sizeofSizeT)
       THEN /\ sz' = FileCount(file)
            /\ directory' = ReadDirectory(FileCount(file))
            /\ fpos' = dataStart(FileCount(file))
            /\ m_size' = FileCount(file)
            /\ m_buckets' = growUnsafe(FileCount(file))
            /\ nThreads' = n
            /\ li' = [t \in Threads |-> t - 1]
            /\ loadedBy' = [t \in Threads |-> <<>>]
            /\ finalFilePtr' = Uninitialized
            /\ spc' = "l_join"
       ELSE /\ spc' = "l_throw"
            /\ fpos' = IF CanRead(0, sizeofInt) /\ FromLE(SubSeq(file, 1, sizeofInt)) # kMagic
                         THEN sizeofInt ELSE Len(file)
            /\ UNCHANGED << sz, directory, m_size, m_buckets, li, finalFilePtr, nThreads, loadedBy >>
  /\ UNCHANGED << file, s_i, offsets, process, snapshot >>
  /\ UNCHANGED << m_counts, rc, alive, pc, val, slot, old, wi, results, held, pending, overwritten >>
  /\ UNCHANGED << regVars, inside, mapVars >>

\* The entry of index i can be read and decoded.
EntryOk(i) ==
  /\ directory[i + 1] # Huge
  /\ CanRead(directory[i + 1], sizeofSizeT)
  /\ EntryLength(file, directory[i + 1]) # Huge
  /\ CanRead(directory[i + 1] + sizeofSizeT, EntryLength(file, directory[i + 1]))
  /\ SerdeLoad(EntryPayload(file, directory[i + 1])) # 0

\* A worker that steps to the next index instead of striding by nThreads.
LoadEntry_StrideOne(t) ==
  /\ spc = "l_join"
  /\ process = "running"
  /\ t <= nThreads
  /\ pc[t] = "idle"
  /\ li[t] < sz
  /\ IF EntryOk(li[t])
       THEN /\ finalFilePtr' = IF li[t] = sz - 1 THEN EntryEnd(file, directory[li[t] + 1])
                               ELSE finalFilePtr
            /\ rc' = inc(SerdeLoad(EntryPayload(file, directory[li[t] + 1])))
            /\ slot' = [slot EXCEPT ![t] = li[t]]
            /\ val' = [val EXCEPT ![t] = SerdeLoad(EntryPayload(file, directory[li[t] + 1]))]
            /\ Goto(t, IF li[t] >= m_size THEN "w_throw" ELSE "w_inc")
            /\ li' = [li EXCEPT ![t] = @ + 1]
            /\ loadedBy' = [loadedBy EXCEPT ![t] = Append(@, li[t])]
            /\ UNCHANGED process
       ELSE /\ process' = "terminated"
            /\ UNCHANGED << finalFilePtr, rc, slot, val, pc, li, loadedBy >>
  /\ UNCHANGED << file, fpos, spc, sz, s_i, offsets, directory, nThreads, snapshot >>
  /\ UNCHANGED << m_size, m_buckets, m_counts, alive, old, wi, results, held, pending, overwritten >>
  /\ UNCHANGED << regVars, inside, mapVars >>

\* The workers are the threads 1 .. nThreads; the worker of thread t has tid t - 1.
\* One iteration of a worker: safe_pread of entrySz and of the bytes,
\* finalFilePtr for the last index, write(i, Serde<T>::load(&range)) up to the
\* bounds check of write.  Serde::load hands back a new element with one
\* reference.  An exception thrown here leaves the thread function, which
\* calls std::terminate.
LoadEntry(t) ==
  /\ spc = "l_join"
  /\ process = "running"
  /\ t <= nThreads
  /\ pc[t] = "idle"
  /\ li[t] < sz
  /\ IF EntryOk(li[t])
       THEN /\ finalFilePtr' = IF li[t] = sz - 1 THEN EntryEnd(file, directory[li[t] + 1])
                               ELSE finalFilePtr
            /\ rc' = inc(SerdeLoad(EntryPayload(file, directory[li[t] + 1])))
            /\ slot' = [slot EXCEPT ![t] = li[t]]
            /\ val' = [val EXCEPT ![t] = SerdeLoad(EntryPayload(file, directory[li[t] + 1]))]
            /\ Goto(t, IF li[t] >= m_size THEN "w_throw" ELSE "w_inc")
            /\ li' = [li EXCEPT ![t] = @ + nThreads]
            /\ loadedBy' = [loadedBy EXCEPT ![t] = Append(@, li[t])]
            /\ UNCHANGED process
       ELSE /\ process' = "terminated"
            /\ UNCHANGED << finalFilePtr, rc, slot, val, pc, li, loadedBy >>
  /\ UNCHANGED << file, fpos, spc, sz, s_i, offsets, directory, nThreads, snapshot >>
  /\ UNCHANGED << m_size, m_buckets, m_counts, alive, old, wi, results, held, pending, overwritten >>
  /\ UNCHANGED << regVars, inside, mapVars >>

\* for (auto& t: deserThreads) t.join(); fseek(file, finalFilePtr, SEEK_SET);
\* With sz == 0 no worker has assigned finalFilePtr: any position may result.
LoadEnd ==
  /\ spc = "l_join"
  /\ process = "running"
  /\ \A t \in Threads : pc[t] = "idle" /\ (t <= nThreads => li[t] >= sz)
  /\ IF finalFilePtr = Uninitialized
       THEN \E p \in 0 .. Len(file) : fpos' = p
       ELSE fpos' = finalFilePtr
  /\ spc' = "l_done"
  /\ UNCHANGED << file, sz, s_i, offsets, directory, li, finalFilePtr, nThreads, process, snapshot >>
  /\ UNCHANGED << vecVars, regVars, extra >>

\* A quiescent vector is filled, saved and destroyed; the file is loaded into a
\* fresh vector, which is then read.
NextRoundTrip ==
  \/ \E t \in Mutators, v \in Values : spc = "idle" /\ AppendCall(t, v)
  \/ \E t \in Threads : AppendLoadSize(t)
  \/ \E t \in Threads : AppendLoadBucket(t)
  \/ \E t \in Threads : AppendInstallBucket(t)
  \/ \E t \in Threads : AppendClaimSlot(t)
  \/ \E t \in Threads : AppendInc(t)
  \/ \E t \in Threads : AppendAssert(t)
  \/ \E t \in Threads : AppendPublish(t)
  \/ \E t \in Mutators, idx \in 0 .. MaxSize, v \in Values : spc = "idle" /\ WriteCall(t, idx, v)
  \/ \E t \in Threads : Unwind(t)
  \/ \E t \in Threads : process = "running" /\ WriteInc(t)
  \/ \E t \in Threads : process = "running" /\ WriteLoad(t)
  \/ \E t \in Threads : process = "running" /\ WriteSwap(t)
  \/ \E t \in Threads : wait(t)
  \/ \E t \in Threads : WriteDec(t)
  \/ Quiescent /\ SaveBegin
  \/ SaveRead
  \/ SaveElement
  \/ SaveEnd
  \/ spc \in {"s_done", "damaged"} /\ Destroy
  \/ Construct
  \/ LoadBegin
  \/ \E t \in Threads : LoadEntry(t)
  \/ LoadEnd
  \/ \E t \in Threads, idx \in 0 .. MaxSize : spc = "l_done" /\ ReadCall(t, idx)
  \/ \E t \in Threads : ReadEnter(t)
  \/ \E t \in Threads : ReadLoad(t)
  \/ \E t \in Threads : ReadInc(t)
  \/ \E t \in Threads : ReadLeave(t)
  \/ \E v \in Values : spc = "l_done" /\ Release(v)

SpecRoundTrip == Init /\ [][NextRoundTrip]_vars

\* The same, with a file that may have been damaged between save and load.
NextLoad ==
  \/ NextRoundTrip
  \/ Damage

SpecLoad == Init /\ [][NextLoad]_vars

\* ------------------------------------------------------- index arithmetic
\* append, from insertionPoint: indexToBucketIndex (index + 1, highOrderBit),
\* auto sz = 1 << bucket, and indexToIntraBucketIndex with its bucketStart,
\* bucketEnd, its two asserts and index - bucketStart, in the code's types.
Locate ==
  /\ locals = NoLocals
  /\ LET next == PlusOne(insertionPoint)
         bucket == highOrderBit32(next) - 1
     IN  \E capac \in ShiftLeft(bucket), s \in ShiftLeft(bucket), e \in ShiftLeft(bucket + 1) :
           \E bucketStart \in MinusOne(s), bucketEnd \in MinusOne(e) :
             locals' = [next |-> next,
                        bucket |-> bucket,
                        sz |-> capac,
                        bucketStart |-> bucketStart,
                        bucketEnd |-> bucketEnd,
                        asserts |-> /\ ~Below(insertionPoint, bucketStart.bits)
                                    /\ Below(insertionPoint, bucketEnd.bits),
                        indexInBucket |-> Minus(insertionPoint, bucketStart.bits)]
  /\ UNCHANGED << vecVars, regVars, ioVars, inside, loadedBy, insertionPoint >>

NextIndex == Locate

\* The buckets whose every index is an input.
SmallIndices == {<< 0, i >> : i \in 0 .. 2^(MaxBucket + 1) - 2}

\* The first and the last index of every bucket.
EdgeIndices ==
  {Pred(TwoTo(b)) : b \in 0 .. kMaxBuckets - 1} \cup {Pred(Pred(TwoTo(b + 1))) : b \in 0 .. kMaxBuckets - 1}

InitIndex ==
  /\ InitProgram
  /\ insertionPoint \in SmallIndices
  /\ locals = NoLocals

InitWidth ==
  /\ InitProgram
  /\ insertionPoint \in EdgeIndices
  /\ locals = NoLocals

\* The index arithmetic on every index of the buckets 0 .. MaxBucket.
SpecIndex == InitIndex /\ [][NextIndex]_vars

\* The index arithmetic on the first and last index of each of the 32 buckets.
SpecWidth == InitWidth /\ [][NextIndex]_vars

\* ----------------------------------------------------------------- Next
Next ==
  \/ \E t \in Threads, v \in Values : AppendCall(t, v)
  \/ \E t \in Threads : AppendLoadSize(t)
  \/ \E t \in Threads : AppendLoadBucket(t)
  \/ \E t \in Threads : AppendInstallBucket(t)
  \/ \E t \in Threads : AppendClaimSlot(t)
  \/ \E t \in Threads : AppendInc(t)
  \/ \E t \in Threads : AppendAssert(t)
  \/ \E t \in Threads : AppendPublish(t)
  \/ \E t \in Threads, idx \in 0 .. MaxSize : ReadCall(t, idx)
  \/ \E t \in Threads : Unwind(t)
  \/ \E t \in Threads : ReadEnter(t)
  \/ \E t \in Threads : ReadLoad(t)
  \/ \E t \in Threads : ReadInc(t)
  \/ \E t \in Threads : ReadLeave(t)
  \/ \E v \in Values : Release(v)
  \/ \E t \in Threads, idx \in 0 .. MaxSize, v \in Values : WriteCall(t, idx, v)
  \/ \E t \in Threads : WriteInc(t)
  \/ \E t \in Threads : WriteLoad(t)
  \/ \E t \in Threads : WriteSwap(t)
  \/ \E t \in Threads : wait(t)
  \/ \E t \in Threads : WriteDec(t)
  \/ Destroy

Spec == Init /\ [][Next]_vars

\* Appends and reads only: no write, no destruction.
NextAppend ==
  \/ \E t \in Threads, v \in Values : AppendCall(t, v)
  \/ \E t \in Threads : AppendLoadSize(t)
  \/ \E t \in Threads : AppendLoadBucket(t)
  \/ \E t \in Threads : AppendInstallBucket(t)
  \/ \E t \in Threads : AppendClaimSlot(t)
  \/ \E t \in Threads : AppendInc(t)
  \/ \E t \in Threads : AppendAssert(t)
  \/ \E t \in Threads : AppendPublish(t)
  \/ \E t \in Threads, idx \in 0 .. MaxSize : ReadCall(t, idx)
  \/ \E t \in Threads : Unwind(t)
  \/ \E t \in Threads : ReadEnter(t)
  \/ \E t \in Threads : ReadLoad(t)
  \/ \E t \in Threads : ReadInc(t)
  \/ \E t \in Threads : ReadLeave(t)
  \/ \E v \in Values : Release(v)

SpecAppend == Init /\ [][NextAppend]_vars

\* ------------------------------------------------------------- fairness
\* The statements of append after the call: what thread t does next when it is
\* scheduled inside append.
AppendStep(t) ==
  \/ AppendLoadSize(t)
  \/ AppendLoadBucket(t)
  \/ AppendInstallBucket(t)
  \/ AppendClaimSlot(t)
  \/ AppendInc(t)
  \/ AppendAssert(t)
  \/ AppendPublish(t)

\* The compare-exchange of the bucket pointer, or of the slot, succeeds.
InstallsBucket(t) == AppendInstallBucket(t) /\ pc'[t] = "a_slot"
ClaimsSlot(t) == AppendClaimSlot(t) /\ pc'[t] = "a_inc"

\* A thread inside append is scheduled again and again, and a compare-exchange
\* that finds the expected value again and again does not fail every time (on
\* x86-64, the only target the header compiles for, it never fails then).
AppendFairness ==
  \A t \in Threads :
    /\ WF_vars(AppendStep(t))
    /\ SF_vars(InstallsBucket(t))
    /\ SF_vars(ClaimsSlot(t))

FairAppend == Init /\ [][NextAppend]_vars /\ AppendFairness

\* What thread t does next when it is scheduled inside read or write.
ReadStep(t) == Unwind(t) \/ ReadEnter(t) \/ ReadLoad(t) \/ ReadInc(t) \/ ReadLeave(t)
WriteStep(t) == Unwind(t) \/ WriteInc(t) \/ WriteLoad(t) \/ WriteSwap(t) \/ wait(t) \/ WriteDec(t)

\* home.compare_exchange_weak(old, val) succeeds.
SwapsSlot(t) == WriteSwap(t) /\ pc'[t] \in {"w_wait", "idle"}

\* Fair scheduling of every call in flight.  The loop of SensitiveSection::wait
\* gets no more than that: a waiter that is scheduled only while a counter is
\* non-zero keeps spinning ("Buyer beware: no fairness guarantees").
Fairness ==
  /\ AppendFairness
  /\ \A t \in Threads :
       /\ WF_vars(ReadStep(t))
       /\ WF_vars(WriteStep(t))
       /\ SF_vars(SwapsSlot(t))

\* One thread appends and writes while the other threads read.
Writers == {1}
Readers == Threads \ Writers

NextReadWrite ==
  \/ \E t \in Writers, v \in Values : AppendCall(t, v)
  \/ \E t \in Writers : AppendLoadSize(t)
  \/ \E t \in Writers : AppendLoadBucket(t)
  \/ \E t \in Writers : AppendInstallBucket(t)
  \/ \E t \in Writers : AppendClaimSlot(t)
  \/ \E t \in Writers : AppendInc(t)
  \/ \E t \in Writers : AppendAssert(t)
  \/ \E t \in Writers : AppendPublish(t)
  \/ \E t \in Readers, idx \in 0 .. MaxSize : ReadCall(t, idx)
  \/ \E t \in Threads : Unwind(t)
  \/ \E t \in Readers : ReadEnter(t)
  \/ \E t \in Readers : ReadLoad(t)
  \/ \E t \in Readers : ReadInc(t)
  \/ \E t \in Readers : ReadLeave(t)
  \/ \E v \in Values : Release(v)
  \/ \E t \in Writers, idx \in 0 .. MaxSize, v \in Values : WriteCall(t, idx, v)
  \/ \E t \in Writers : WriteInc(t)
  \/ \E t \in Writers : WriteLoad(t)
  \/ \E t \in Writers : WriteSwap(t)
  \/ \E t \in Writers : wait(t)
  \/ \E t \in Writers : WriteDec(t)

FairReadWrite == Init /\ [][NextReadWrite]_vars /\ Fairness

\* ------------------------------------------------------------ properties
\* The appends that have returned: <<thread, position in the thread's call order>>.
Returned == {tk \in Threads \X (1 .. MaxSize) : tk[2] <= Len(results[tk[1]])}

ReturnedIndex(tk) == results[tk[1]][tk[2]][1]
ReturnedValue(tk) == results[tk[1]][tk[2]][2]

\* C1: once every append call issued on a fresh vector has returned (appends and
\* reads only), size equals the number N of calls, the returned indices are
\* exactly 0..N-1, none returned twice, and slot i holds the value of the call
\* that returned i.
C1_AppendBijection ==
  Quiescent =>
    /\ m_size = Cardinality(Returned)
    /\ {ReturnedIndex(tk) : tk \in Returned} = 0 .. Cardinality(Returned) - 1
    /\ \A a, b \in Returned : ReturnedIndex(a) = ReturnedIndex(b) => a = b
    /\ \A tk \in Returned : Item(ReturnedIndex(tk)) = ReturnedValue(tk)

\* Every thread has appended, different values, and all calls have returned.
C1_Witness ==
  /\ Quiescent
  /\ m_size = MaxSize
  /\ \A t \in Threads : Len(results[t]) >= 1
  /\ \E a, b \in Returned : ReturnedValue(a) # ReturnedValue(b)

\* C2: no dec is ever applied to an element whose refcount is 0, and once the
\* vector is destroyed and every reference returned by read is released, the
\* refcount of every element is 0.
C2_RefcountConservation ==
  /\ \A v \in 0 .. MaxVal : rc[v] >= 0
  /\ (~alive /\ HeldTotal = 0) => \A v \in 0 .. MaxVal : rc[v] = 0

\* A vector that held MaxSize elements, was read and written, has been destroyed,
\* and every read reference is released: some appended value is no longer counted.
C2_Witness ==
  /\ ~alive
  /\ HeldTotal = 0
  /\ m_size = MaxSize
  /\ \A t \in Threads : Len(results[t]) >= 1

\* C3: a writer decrements the value it replaced only when every reader that had
\* loaded that value from the slot has incremented it, and a read never increments
\* or returns an element whose refcount is 0.
C3_DeferredRelease ==
  /\ \A w \in Threads : pc[w] = "w_dec" => pending[w] = {}
  /\ \A r \in Threads : pc[r] \in {"r_inc", "r_leave"} => rc[val[r]] > 0

\* A writer has swapped a value out while a reader that loaded it is still
\* before its increment.
C3_Witness ==
  \E w, r \in Threads :
    /\ pc[w] = "w_wait"
    /\ r \in pending[w]
    /\ pc[r] = "r_inc"
    /\ val[r] = old[w]
    /\ val[w] # old[w]
    /\ rc[old[w]] = 1

\* The step of thread t that begins a read or write call with its bounds check.
ChecksBounds(t) == pc[t] = "idle" /\ pc'[t] \in ReadPcs \cup WritePcs

SharedState == << m_size, m_buckets, rc, m_counts, held, alive >>

\* C5: the steps of a read or write call that fails its bounds check (the check
\* and the propagation of the error) leave size, buckets, slots, refcounts and
\* the sensitive section as they were.
C5_FailedCallChangesNothing ==
  [][\A t \in Threads :
       /\ (ChecksBounds(t) /\ slot'[t] >= m_size) => UNCHANGED SharedState
       /\ (pc[t] \in {"r_throw", "w_throw"} /\ pc'[t] # pc[t]) =>
            pc'[t] = "idle" /\ UNCHANGED SharedState
    ]_vars

\* A write of the element v at index size() has failed; v is stored nowhere and
\* nobody holds it, and its refcount is 0.
C5_Witness ==
  \E t \in Threads :
    /\ pc[t] = "w_throw"
    /\ slot[t] = m_size
    /\ m_size >= 1
    /\ rc[val[t]] = 0
    /\ \A u \in Threads \ {t} : pc[u] = "idle"

Slots == 0 .. MaxSize - 1

\* Thread t returns from write(i, v) in this step.
WriteReturns(t, i, v) ==
  /\ pc[t] \in {"w_cas", "w_dec"}
  /\ pc'[t] = "idle"
  /\ slot[t] = i
  /\ val[t] = v

\* C6 as stated: when write(idx, v) returns, and as long as no other write to idx
\* takes effect after that return, a read of idx yields v; at the instant of the
\* return no later write has taken effect, so the slot holds v.
C6_AsStated ==
  [][\A t \in Threads, i \in Slots, v \in Values :
       WriteReturns(t, i, v) => Stored(i)' = v
    ]_vars

\* C6 amended: when write(idx, v) returns and no other write to idx has taken
\* effect since this write's own swap, the slot holds v; the slot then changes
\* only when another write to idx takes effect, and the load of a read yields
\* what the slot holds.
C6_ReadAfterWrite ==
  [][/\ \A t \in Threads, i \in Slots, v \in Values :
          (WriteReturns(t, i, v) /\ ~overwritten[t]) => Stored(i)' = v
     /\ \A i \in Slots :
          (i < m_size /\ alive' /\ Stored(i)' # Stored(i)) =>
             \E w \in Threads :
               /\ pc[w] = "w_cas" /\ pc'[w] \in {"w_wait", "idle"}
               /\ slot[w] = i /\ Stored(i)' = val[w]
     /\ \A r \in Threads :
          (pc[r] = "r_load" /\ pc'[r] # pc[r]) => val'[r] = Stored(slot[r])
    ]_vars

\* A write has returned with nothing written over it, and a read that started
\* afterwards has loaded the written value, which differs from the appended one.
C6_Witness ==
  \E r \in Threads, tk \in Returned :
    /\ pc[r] = "r_inc"
    /\ \A w \in Threads : pc[w] \notin WritePcs
    /\ slot[r] = ReturnedIndex(tk)
    /\ val[r] # ReturnedValue(tk)
    /\ val[r] = Stored(slot[r])

SlotsHolding(v) == Cardinality({i \in Slots : i < m_size /\ Stored(i) = v})

\* C7: while no call is in flight on a live vector, the refcount of every element
\* is the number of slots below size that hold it plus the number of references
\* returned by read and not yet released.
C7_QuiescentRefcount ==
  (Quiescent /\ alive) =>
    \A v \in Values : rc[v] = SlotsHolding(v) + held[v]

\* No call in flight; an appended element has been overwritten everywhere and
\* has refcount 0, another element is stored twice, and a read reference is held.
C7_Witness ==
  /\ Quiescent /\ alive
  /\ HeldTotal = 1
  /\ \E v, u \in Values :
       /\ SlotsHolding(v) = 2
       /\ rc[u] = 0
       /\ \E tk \in Returned : ReturnedValue(tk) = u

\* The threads other than t have neither completed nor begun an append.
OnlyAppender(t) ==
  \A u \in Threads \ {t} : results[u] = <<>> /\ pc[u] \notin AppendPcs

\* C8: the indices returned to one thread by its successive appends are strictly
\* increasing; with a single appending thread the k-th append returns k, slot k
\* holds the k-th appended value and a read of k yields it (appends and reads only).
C8_AppendOrder ==
  /\ \A t \in Threads : \A j, k \in 1 .. Len(results[t]) :
       j < k => results[t][j][1] < results[t][k][1]
  /\ \A t \in Threads : OnlyAppender(t) =>
       \A k \in 1 .. Len(results[t]) :
         /\ results[t][k][1] = k - 1
         /\ Stored(k - 1) = results[t][k][2]
         /\ \A r \in Threads :
              (pc[r] = "r_leave" /\ slot[r] = k - 1) => val[r] = results[t][k][2]

\* One thread has appended MaxSize different elements, and another thread has
\* read the last one.
C8_Witness ==
  \E t, r \in Threads :
    /\ OnlyAppender(t)
    /\ Len(results[t]) = MaxSize
    /\ results[t][1][2] # results[t][MaxSize][2]
    /\ r # t
    /\ pc[r] = "r_leave"
    /\ slot[r] = MaxSize - 1

\* C9: size never decreases; it changes only by the return of an append, which
\* raises it by exactly 1, so it equals the number of appends that returned;
\* read, write, failed calls and releases leave it unchanged.
C9_SizeMonotone ==
  /\ [](m_size = Cardinality(Returned))
  /\ [][/\ m_size' >= m_size
        /\ \A t \in Threads :
             (pc[t] = "a_publish" /\ pc'[t] = "idle") => m_size' = m_size + 1
        /\ \A t \in Threads :
             (pc[t] \in ReadPcs \cup WritePcs /\ pc'[t] # pc[t]) => m_size' = m_size
        /\ m_size' # m_size =>
             \E t \in Threads : pc[t] = "a_publish" /\ pc'[t] = "idle"
       ]_vars

\* Size has reached MaxSize while a write is in its swap loop and the other
\* thread has just failed a bounds check.
C9_Witness ==
  /\ m_size = MaxSize
  /\ \E w, r \in Threads : pc[w] = "w_cas" /\ pc[r] \in {"r_throw", "w_throw"}

\* C10: on a live vector every index below size has its bucket allocated and its
\* slot non-empty, in every reachable state of concurrent append, read and write.
C10_PublishedSlotsFilled ==
  alive =>
    \A i \in Slots : i < m_size => BucketOf(i) # NullBucket /\ Item(i) # 0

\* Slot 0 is published and has been overwritten while an appender has claimed
\* slot 1 and not yet published it.
C10_Witness ==
  /\ alive
  /\ m_size = 1
  /\ \E tk \in Returned : ReturnedIndex(tk) = 0 /\ Stored(0) # ReturnedValue(tk)
  /\ \E t \in Threads : pc[t] = "a_inc" /\ slot[t] = 1 /\ Stored(1) = val[t]

\* C11: the load of a read(idx) yields exactly what slot idx holds at that
\* instant, which is never the empty slot, and the read returns that value; what
\* slot idx holds is the value appended at idx when idx is published and changes
\* afterwards only to the value of a write to idx, at that write's swap.
C11_ReadSeesStoredValue ==
  [][/\ \A r \in Threads, i \in Slots :
          (pc[r] = "r_load" /\ pc'[r] # pc[r] /\ slot[r] = i) =>
             /\ val'[r] = Stored(i)
             /\ val'[r] # 0
     /\ \A r \in Threads, v \in Values :
          /\ (pc[r] = "r_inc" /\ val[r] = v /\ pc'[r] # pc[r]) =>
               pc'[r] = "r_leave" /\ val'[r] = v
          /\ (pc[r] = "r_leave" /\ val[r] = v /\ pc'[r] # pc[r]) =>
               pc'[r] = "idle" /\ held'[v] = held[v] + 1
     /\ \A t \in Threads, i \in Slots, v \in Values :
          (pc[t] = "a_publish" /\ pc'[t] = "idle" /\ slot[t] = i /\ val[t] = v) =>
             Stored(i)' = v
     /\ \A i \in Slots :
          (i < m_size /\ alive' /\ Stored(i)' # Stored(i)) =>
             \E w \in Threads, v \in Values :
               /\ pc[w] = "w_cas" /\ pc'[w] \in {"w_wait", "idle"}
               /\ slot[w] = i /\ val[w] = v /\ old[w] = Stored(i) /\ Stored(i)' = v
    ]_vars

\* A reader has loaded from a slot the value of a write whose swap has happened
\* and which has not yet returned; the value differs from the one appended there.
C11_Witness ==
  \E r, w \in Threads, tk \in Returned :
    /\ pc[r] = "r_inc"
    /\ pc[w] = "w_wait"
    /\ slot[w] = slot[r]
    /\ val[r] = val[w]
    /\ old[w] # val[w]
    /\ ReturnedIndex(tk) = slot[r]
    /\ ReturnedValue(tk) # val[r]

C13_AsStated ==
  \A t \in Threads : (pc[t] \in ReadPcs \cup WritePcs) ~> (pc[t] = "idle")

\* C13 amended: under fair scheduling every read call returns or fails, every
\* write call that fails its bounds check returns, and every write call returns
\* provided the threads eventually stay out of the sensitive section.
C13_WriteReturns ==
  /\ \A t \in Threads : (pc[t] \in ReadPcs \cup {"w_throw"}) ~> (pc[t] = "idle")
  /\ (<>[](\A r \in Threads : pc[r] \notin InSection)) =>
       \A t \in Threads : (pc[t] \in WritePcs) ~> (pc[t] = "idle")

\* A writer has swapped a value out and spins in wait on a counter that a reader
\* inside the sensitive section keeps above zero.
C13_Witness ==
  \E w, r \in Threads :
    /\ pc[w] = "w_wait"
    /\ pc[r] \in InSection
    /\ m_counts[wi[w]] > 0
    /\ getCount(r) = wi[w]

\* The appenders between their successful slot compare-exchange and their
\* increment of m_size.
Claimed == {t \in Threads : pc[t] \in {"a_inc", "a_assert", "a_publish"}}

\* C19: an appender that has won the slot compare-exchange finds size equal to
\* the insertion point it read, up to its increment of size, so the assertion of
\* append never fails; when it is about to increment size its slot holds its
\* value and the refcount of the value has been incremented.
C19_AppendAssertHolds ==
  \A t \in Threads :
    /\ pc[t] # "abort"
    /\ t \in Claimed => m_size = slot[t] /\ Stored(slot[t]) = val[t]
    /\ pc[t] \in {"a_assert", "a_publish"} => rc[val[t]] >= 1

\* An appender is at the assertion for slot 1 while the other thread is in the
\* swap loop of a write to slot 0.
C19_Witness ==
  \E t, w \in Threads :
    /\ pc[t] = "a_assert"
    /\ slot[t] = 1
    /\ pc[w] = "w_cas"
    /\ slot[w] = 0

\* C20: on a live vector the non-empty slots are the indices below size, plus
\* index size exactly while one appender is between its slot compare-exchange
\* and its increment of size; there is at most one such appender, every slot
\* above size is empty, and no slot compare-exchange of an append succeeds while
\* there is one.
C20_OneClaimAtATime ==
  /\ [](alive =>
          /\ Cardinality(Claimed) <= 1
          /\ \A t \in Claimed : slot[t] = m_size
          /\ \A i \in Slots :
               /\ i < m_size => Stored(i) # 0
               /\ i > m_size => Stored(i) = 0
               /\ i = m_size => (Stored(i) # 0 <=> Claimed # {}))
  /\ [][\A t \in Threads :
          (pc[t] = "a_slot" /\ pc'[t] = "a_inc") => Claimed = {}
       ]_vars

\* One appender has claimed slot 0 and not yet incremented size; the other is
\* about to try its compare-exchange on the same slot, with another value.
C20_Witness ==
  \E t, u \in Threads :
    /\ alive
    /\ m_size = 0
    /\ pc[t] = "a_inc"
    /\ Stored(0) = val[t]
    /\ pc[u] = "a_slot"
    /\ slot[u] = 0
    /\ val[u] # val[t]

Present(n) == g_vecTab[n] # 0

\* C17: create(name) returns true exactly when the name is absent and then
\* registers a vector that did not exist before, and returns false otherwise,
\* leaving the registry as it was; destroy(name) returns true exactly when the
\* name is present, and removes it; get(name) returns the registered vector or
\* fails when the name is absent; of the create calls for one name that return
\* with no destroy of the name in between, exactly one returns true.
C17_RegistrySemantics ==
  /\ [](\A n \in Names : created[n] = erased[n] + (IF Present(n) THEN 1 ELSE 0))
  /\ [][\A t \in Threads, n \in Names :
          /\ (rpc[t] = "create" /\ rname[t] = n /\ rpc'[t] # rpc[t]) =>
               IF Present(n)
                 THEN /\ rpc'[t] = "idle" /\ rret'[t] = "false"
                      /\ g_vecTab' = g_vecTab /\ live' = live
                 ELSE rpc'[t] = "c_insert"
          /\ (rpc[t] = "c_insert" /\ rname[t] = n /\ rpc'[t] # rpc[t]) =>
               /\ ~Present(n)
               /\ rpc'[t] = "idle" /\ rret'[t] = "true"
               /\ g_vecTab'[n] # 0
               /\ g_vecTab'[n] \notin live
               /\ live' = live \cup {g_vecTab'[n]}
               /\ \A m \in Names \ {n} : g_vecTab'[m] = g_vecTab[m]
          /\ (rpc[t] = "erase" /\ rname[t] = n /\ rpc'[t] # rpc[t]) =>
               /\ rpc'[t] = "idle"
               /\ rret'[t] = (IF Present(n) THEN "true" ELSE "false")
               /\ g_vecTab'[n] = 0
               /\ \A m \in Names \ {n} : g_vecTab'[m] = g_vecTab[m]
          /\ (rpc[t] = "get" /\ rname[t] = n /\ rpc'[t] # rpc[t]) =>
               /\ rpc'[t] = "idle"
               /\ g_vecTab' = g_vecTab /\ live' = live
               /\ IF Present(n)
                    THEN rret'[t] = "handle" /\ handle'[t] = g_vecTab[n]
                    ELSE rret'[t] = "error" /\ handle'[t] = handle[t]
       ]_vars

\* Two threads have called create for one name and both have returned, one with
\* true and one with false; no destroy of the name has returned true.
C17_Witness ==
  \E t, u \in Threads, n \in Names :
    /\ rpc[t] = "idle" /\ rpc[u] = "idle"
    /\ rname[t] = n /\ rname[u] = n
    /\ rret[t] = "true" /\ rret[u] = "false"
    /\ erased[n] = 0
    /\ created[n] = 1

\* C18: a vector handed out by get stays alive as long as a handle to it exists,
\* so a call through a handle never operates on a vector that has been deleted.
C18_HandleKeepsVectorAlive ==
  \A t \in Threads :
    /\ handle[t] # 0 => handle[t] \in live
    /\ rpc[t] = "use" => handle[t] \in live

\* C15: a save that runs beside appends and writes reads size once, at its
\* start, into n; it reads exactly the indices below n, each once and in order,
\* and the entry it stores for index i encodes the value its read loaded from
\* slot i, which is what slot i held at that instant; when it has completed the
\* file holds the count n, n <= size, a directory of n offsets and exactly n
\* entries, entry i being the one stored for index i.
C15_SaveStoresSnapshot ==
  /\ [](spc = "s_done" =>
          /\ FileCount(file) = sz
          /\ sz <= m_size
          /\ s_i = sz
          /\ \A i \in Slots : i < sz =>
               /\ FileOffset(file, i) = offsets[i + 1]
               /\ FileOffset(file, i) = EntryStart(file, sz, i)
               /\ SerdeLoad(EntryPayload(file, FileOffset(file, i))) \in Values
          /\ Len(file) = EntryStart(file, sz, sz))
  /\ [][/\ (spc = "idle" /\ spc' = "s_loop") => sz' = m_size
        /\ spc = "s_loop" => sz' = sz
        /\ (pc[Saver] = "idle" /\ pc'[Saver] # "idle") =>
             slot'[Saver] = s_i /\ s_i < sz /\ pc'[Saver] = "r_enter"
        /\ \A i \in Slots :
             (pc[Saver] = "r_load" /\ pc'[Saver] # "r_load" /\ s_i = i) =>
                val'[Saver] = Stored(i) /\ val'[Saver] # 0 /\ slot[Saver] = i
        /\ \A v \in Values :
             (pc[Saver] \in {"r_inc", "r_leave"} /\ val[Saver] = v /\ pc'[Saver] # pc[Saver]) =>
                IF pc[Saver] = "r_inc" THEN val'[Saver] = v ELSE held'[v] = 1
        /\ \A i \in Slots, v \in Values :
             (spc = "s_loop" /\ s_i = i /\ s_i' = i + 1 /\ held[v] > 0) =>
                /\ offsets'[i + 1] = fpos
                /\ SerdeLoad(EntryPayload(file', fpos)) = v
                /\ EntryEnd(file', fpos) = fpos'
        /\ \A i \in Slots :
             (spc \in {"s_loop", "s_done"} /\ spc' \in {"s_loop", "s_done"} /\ i < s_i) =>
                /\ offsets'[i + 1] = offsets[i + 1]
                /\ EntryPayload(file', offsets[i + 1]) = EntryPayload(file, offsets[i + 1])
       ]_vars

\* A save has completed; while it ran another element was appended, and the
\* slot of a saved element was overwritten after the save had read it.
C15_Witness ==
  /\ spc = "s_done"
  /\ sz >= 1
  /\ m_size > sz
  /\ \E i \in Slots :
       /\ i < sz
       /\ SerdeLoad(EntryPayload(file, FileOffset(file, i))) # Stored(i)
       /\ snapshot[i + 1] # Stored(i)

\* C14: a quiescent vector holding e0..eN-1 is saved and the file is loaded
\* into a fresh vector: when load has returned the vector has size N, slot i
\* holds ei for every i below N, and a read of i returns ei.
C14_RoundTrip ==
  spc = "l_done" =>
    /\ m_size = Len(snapshot)
    /\ \A i \in Slots : i < Len(snapshot) => Stored(i) = snapshot[i + 1]
    /\ \A r \in Threads :
         pc[r] \in {"r_inc", "r_leave"} => val[r] = snapshot[slot[r] + 1]

\* MaxSize different elements were saved, the vector was destroyed, the file
\* was loaded into a fresh vector and the last index has been read.
C14_Witness ==
  /\ spc = "l_done"
  /\ Len(snapshot) = MaxSize
  /\ snapshot[1] # snapshot[MaxSize]
  /\ \E r \in Threads : pc[r] = "r_leave" /\ slot[r] = MaxSize - 1

\* C16: no failure during load terminates the process; a failed read or decode,
\* in load itself or in one of its workers, leaves load as an exception.
C16_LoadFailureIsRecoverable ==
  process # "terminated"

\* C21: at every instant before destruction, in the middle of concurrent append,
\* read and write calls too, the refcount of every element is at least the
\* number of published slots holding it plus the number of unreleased references
\* returned by read; an element in a published slot never has refcount 0.
C21_RefcountCoversReferences ==
  alive =>
    /\ \A v \in Values : rc[v] >= SlotsHolding(v) + held[v]
    /\ \A i \in Slots : i < m_size => rc[Stored(i)] > 0

\* A writer has swapped a value out of a published slot and not yet decremented
\* it, while a reader that loaded that value from the slot has not yet
\* incremented it: the value is in no slot and in no caller's hands, and its
\* refcount is still positive.
C21_Witness ==
  /\ alive
  /\ \E w, r \in Threads :
       /\ pc[w] = "w_wait"
       /\ pc[r] = "r_inc"
       /\ val[r] = old[w]
       /\ slot[r] = slot[w]
       /\ SlotsHolding(old[w]) + held[old[w]] = 0
       /\ rc[old[w]] > 0

C23_BucketInstalledOnce ==
  [][alive' =>
       /\ \A b \in 0 .. kMaxBuckets - 1 :
            /\ m_buckets[b] # NullBucket =>
                 /\ m_buckets'[b] # NullBucket
                 /\ Len(m_buckets'[b]) = BucketCapacity(b)
            /\ (m_buckets[b] = NullBucket /\ m_buckets'[b] # NullBucket) =>
                 /\ m_buckets'[b] = NewBucket(BucketCapacity(b))
                 /\ \E t \in Threads :
                      /\ pc[t] = "a_alloc" /\ pc'[t] = "a_slot"
                      /\ indexToBucketIndex(slot[t]) = b
       /\ \A t \in Threads :
            /\ (pc[t] = "a_alloc" /\ pc'[t] = "a_slot") => BucketOf(slot[t]) = NullBucket
            /\ (pc[t] = "a_alloc" /\ pc'[t] = "a_size") => m_buckets' = m_buckets
    ]_vars

\* Two appenders have both found the bucket of their insertion point null and
\* allocated; one has installed its bucket and claimed a slot in it, the other
\* is at its install compare-exchange, which can only fail.
C23_Witness ==
  \E t, u \in Threads :
    /\ pc[t] = "a_alloc"
    /\ pc[u] \in {"a_inc", "a_assert", "a_publish"}
    /\ slot[t] = slot[u]
    /\ BucketOf(slot[t]) # NullBucket

\* C26: after a save of a vector whose size was N when save began, the file
\* holds the magic, the count N, a directory of N offsets and N length-prefixed
\* payloads in index order; offset i is the position of the length prefix of
\* element i, the offsets increase strictly, offset 0 is the position right
\* after the directory, and the file position is the end of the last payload.
C26_FileLayout ==
  spc = "s_done" =>
    /\ FromLE(SubSeq(file, 1, sizeofInt)) = kMagic
    /\ FileCount(file) = Len(snapshot)
    /\ \A i \in 0 .. Len(snapshot) - 1 :
         /\ FileOffset(file, i) = EntryStart(file, Len(snapshot), i)
         /\ SerdeLoad(EntryPayload(file, FileOffset(file, i))) # 0
         /\ i = 0 => FileOffset(file, i) = directoryOff + Len(snapshot) * sizeofSizeT
         /\ i > 0 => FileOffset(file, i - 1) < FileOffset(file, i)
    /\ fpos = EntryStart(file, Len(snapshot), Len(snapshot))
    /\ fpos = Len(file)

\* A save of MaxSize elements has completed, and its entries differ in length.
C26_Witness ==
  /\ spc = "s_done"
  /\ Len(snapshot) = MaxSize
  /\ EntryLength(file, FileOffset(file, 0)) # EntryLength(file, FileOffset(file, MaxSize - 1))

\* C27: no step of save changes the size or a slot of the vector, and when save
\* has returned or failed, at whichever write, every reference its reads took
\* has been released: no reference is held, and once no call is in progress the
\* refcount of every element is the number of slots holding it.
C27_SaveLeavesVectorAlone ==
  /\ [][(spc' # spc \/ s_i' # s_i \/ fpos' # fpos \/ pc'[Saver] # pc[Saver]) =>
          (m_size' = m_size /\ m_buckets' = m_buckets /\ alive' = alive)]_vars
  /\ [](spc \in {"s_done", "s_throw"} =>
          /\ HeldTotal = 0
          /\ pc[Saver] = "idle"
          /\ Quiescent => \A v \in Values : rc[v] = SlotsHolding(v))

\* A save of two elements has stored the first and failed in a write of the
\* second; no call is in progress.
C27_Witness ==
  /\ spc = "s_throw"
  /\ sz = 2
  /\ s_i = 1
  /\ Quiescent
  /\ offsets[2] > offsets[1]

\* C29: after a load into a fresh vector, with no call in progress and no
\* reference held by a caller, the refcount of every element is the number of
\* slots holding it: the reference that deserialization created is not left
\* over.
C29_LoadedRefcountIsOnePerSlot ==
  (spc = "l_done" /\ alive /\ Quiescent /\ HeldTotal = 0) =>
    \A v \in Values : rc[v] = SlotsHolding(v)

\* C30: when load has returned for a file of N elements, the file position is
\* just past the last element, directory[N-1] + sizeof(size_t) + the length of
\* the last payload; for N = 0 it is just past the header and the empty
\* directory.
C30_FilePositionAfterLoad ==
  spc = "l_done" =>
    fpos = IF sz = 0 THEN dataStart(0)
           ELSE directory[sz] + sizeofSizeT + EntryLength(file, directory[sz])

C24_IndexMapping ==
  locals # NoLocals =>
    LET idx == insertionPoint[2]
        b == locals.bucket
        o == locals.indexInBucket[2]
    IN  /\ insertionPoint[1] = 0 /\ locals.indexInBucket[1] = 0
        /\ 2^b <= idx + 1 /\ idx + 1 < 2^(b + 1)
        /\ o = idx - (2^b - 1)
        /\ 0 <= o /\ o < 2^b
        /\ locals.asserts
        /\ indexToBucketIndex(idx) = b
        /\ indexToIntraBucketIndex(idx, b) = o
        /\ \A j \in 0 .. 2^(MaxBucket + 1) - 2 :
             j # idx =>
               << indexToBucketIndex(j), indexToIntraBucketIndex(j, indexToBucketIndex(j)) >> # << b, o >>
        /\ \A p \in 0 .. 2^b - 1 :
             /\ indexToBucketIndex(2^b - 1 + p) = b
             /\ indexToIntraBucketIndex(2^b - 1 + p, b) = p
        /\ 2^b - 1 <= idx /\ idx <= 2^(b + 1) - 2

\* The mapping has been computed for the last index of bucket MaxBucket: its
\* offset is the last of the bucket.
C24_Witness ==
  /\ locals # NoLocals
  /\ insertionPoint = << 0, 2^(MaxBucket + 1) - 2 >>
  /\ locals.bucket = MaxBucket
  /\ locals.indexInBucket = << 0, 2^MaxBucket - 1 >>

\* C25: for every insertion point from 0 to 2^32 - 2 the bucket number is in
\* 0 .. 31, and the capacity 1 << bucket, the bounds (1 << bucket) - 1 and
\* (1 << (bucket + 1)) - 1, and index + 1, computed in the code's 32-bit types,
\* do not overflow and are their mathematical values.
C25_AllBucketsWithinWidth ==
  locals # NoLocals =>
    /\ locals.bucket \in 0 .. kMaxBuckets - 1
    /\ locals.next = Succ(insertionPoint)
    /\ locals.sz.ok /\ locals.sz.bits = TwoTo(locals.bucket)
    /\ locals.bucketStart.ok /\ locals.bucketStart.bits = Pred(TwoTo(locals.bucket))
    /\ locals.bucketEnd.ok /\ locals.bucketEnd.bits = Pred(TwoTo(locals.bucket + 1))

====
